---- MODULE Spec2Model ----
(***************************************************************************)
(* Defect risk prediction pipeline of PDA_defect:                          *)
(*   ml/defect_predictor.py  DefectPredictor, ProductionWeightCalculator   *)
(*   main.py                 FactoryDefectPredictionSystem                 *)
(*   config.py               MLConfig                                      *)
(*                                                                         *)
(* Six specifications share this module.                                   *)
(*   SpecWeights  ProductionWeightCalculator.calculate_weights applied to  *)
(*                bounded production-count maps (exact rational            *)
(*                arithmetic, a weight is a pair <<numerator, denom>>).    *)
(*   Spec         one DefectPredictor and the caller's DataFrame: the      *)
(*                constructor, train_model, predict_defect_probability,    *)
(*                save_model, load_model and a fresh load of the records   *)
(*                in every order.                                          *)
(*   SpecSampler  a predictor trained once and then asked for predictions, *)
(*                on frames with several parts per product.                *)
(*   SpecFeatures prepare_features and train_model called on a sequence    *)
(*                of batches whose categorical values and keywords change  *)
(*                from one batch to the next.                              *)
(*   SpecFallback a predictor trained once and asked for predictions on    *)
(*                frames of about sample_size rows, whose products are not *)
(*                always among the production counts.                      *)
(*   SpecPipeline run_prediction_pipeline of main.py, run again and again  *)
(*                by processes that each start with a fresh predictor and  *)
(*                share the model file.                                    *)
(*                                                                         *)
(* Cell values.  A DataFrame cell holds either a raw string or an integer  *)
(* code.  Both are modelled as integers so that a column of codes can be   *)
(* compared with a raw string the way pandas does (never equal): a label   *)
(* code is a number in 0 .. Len(Strings)-1 and the string Strings[i] is    *)
(* the number Len(Strings) + i.  Strings lists the strings in Python's     *)
(* sort order, so integer order on string cells is the order LabelEncoder  *)
(* sorts its classes in.  The Korean literals are transliterated:          *)
(*   "MIBUNRYU" is the fill value of line 54, "BUPUMBULLYANG" the target   *)
(*   label of line 89, "SEOLGYEBULLYANG" and "JAGEOPBULLYANG" two other    *)
(*   major categories.                                                     *)
(***************************************************************************)
EXTENDS Integers, Sequences, FiniteSets, TLC

VARIABLES
    monthly_counts,             \* calculate_weights: its argument
    wret,                       \* calculate_weights: what the call produced
    records,                    \* the defect records as the data source holds them
    data,                       \* the caller's DataFrame (mutated in place by prepare_features)
    model,                      \* DefectPredictor.model
    label_encoders,             \* DefectPredictor.label_encoders: column -> classes_
    tfidf_vectorizer,           \* DefectPredictor.tfidf_vectorizer: None or its vocabulary
    feature_names,              \* DefectPredictor.feature_names
    is_trained,                 \* DefectPredictor.is_trained
    monthly_production_counts,  \* DefectPredictor.monthly_production_counts (set by predict)
    file,                       \* models/defect_predictor.pkl
    ret                         \* the last call on the predictor and its result

wvars == <<monthly_counts, wret>>
pvars == <<records, data, model, label_encoders, tfidf_vectorizer, feature_names,
           is_trained, monthly_production_counts, file, ret>>
vars == <<monthly_counts, wret, records, data, model, label_encoders, tfidf_vectorizer,
          feature_names, is_trained, monthly_production_counts, file, ret>>

(***************************************************************************)
(* Bounds of the model.                                                    *)
(***************************************************************************)
MaxCount == 3        \* production counts of SpecWeights range over 0 .. MaxCount
MaxBlock == 3        \* defect rows per product in the caller's DataFrame

(***************************************************************************)
(* MLConfig (config.py).  min_weight = 0.05 and max_weight = 0.40 are kept *)
(* as hundredths, max_df = 0.85 as hundredths, test_size = 0.2 as tenths.  *)
(***************************************************************************)
min_weight_pct == 5
max_weight_pct == 40
top_predictions_count == 5
sample_size == 10
min_df == 2
max_df_pct == 85
test_size_tenths == 2

None == "None"
EmptyMap == [k \in {} |-> 0]

\* a map or a list with every entry computed once
Eager(f) == f @@ EmptyMap

(***************************************************************************)
(* Exact rationals <<n, d>> with n >= 0 and d > 0.                         *)
(***************************************************************************)
RatLE(a, b) == a[1] * b[2] <= b[1] * a[2]
RatEq(a, b) == a[1] * b[2] = b[1] * a[2]
RatMax(a, b) == IF RatLE(a, b) THEN b ELSE a
RatMin(a, b) == IF RatLE(a, b) THEN a ELSE b

RECURSIVE GCD(_, _)
GCD(m, n) == IF n = 0 THEN m ELSE GCD(n, m % n)

\* n/d in lowest terms
Rat(n, d) == <<n \div GCD(n, d), d \div GCD(n, d)>>

RatAdd(a, b) == Rat(a[1] * b[2] + b[1] * a[2], a[2] * b[2])
RatDiv(a, b) == Rat(a[1] * b[2], a[2] * b[1])

RECURSIVE SumInts(_)
\* sum(monthly_production_counts.values())
SumInts(f) ==
    IF DOMAIN f = {} THEN 0
    ELSE LET k == CHOOSE x \in DOMAIN f : TRUE
         IN f[k] + SumInts([x \in DOMAIN f \ {k} |-> f[x]])

RECURSIVE SumRats(_)
\* sum(production_weights.values())
SumRats(f) ==
    IF DOMAIN f = {} THEN <<0, 1>>
    ELSE LET k == CHOOSE x \in DOMAIN f : TRUE
         IN RatAdd(f[k], SumRats([x \in DOMAIN f \ {k} |-> f[x]]))

min_weight == <<min_weight_pct, 100>>
max_weight == <<max_weight_pct, 100>>

\* line 447: count / total_production
RawWeight(count, total_production) == <<count, total_production>>

\* line 453: min(max(weight, min_weight), max_weight)
ClampWeight(weight) == RatMin(RatMax(weight, min_weight), max_weight)

\* the clamped weight returned as it is, without line 460
Normalize_NoRenormalization(weight, total_weight) == weight

\* line 460: weight / total_weight
Normalize(weight, total_weight) == RatDiv(weight, total_weight)

(***************************************************************************)
(* ProductionWeightCalculator.calculate_weights.  An empty map is answered *)
(* with a warning and {} (lines 439-441); a map whose counts sum to 0      *)
(* divides by zero on line 447 and returns nothing.                        *)
(***************************************************************************)
calculate_weights(counts) ==
    IF DOMAIN counts = {}
    THEN [called |-> TRUE, raised |-> None, warned |-> TRUE, weights |-> EmptyMap]
    ELSE LET total_production == SumInts(counts)
         IN IF total_production = 0
            THEN [called |-> TRUE, raised |-> "ZeroDivisionError", warned |-> FALSE,
                  weights |-> EmptyMap]
            ELSE LET raw_weights ==
                         Eager([m \in DOMAIN counts |->
                                   RawWeight(counts[m], total_production)])
                     clamped == Eager([m \in DOMAIN counts |-> ClampWeight(raw_weights[m])])
                     total_weight == SumRats(clamped)
                 IN [called |-> TRUE, raised |-> None, warned |-> FALSE,
                     weights |-> Eager([m \in DOMAIN counts |->
                                           Normalize(clamped[m], total_weight)])]

(***************************************************************************)
(* SpecWeights: the inputs of calculate_weights.                           *)
(***************************************************************************)
WeightProducts == {"A", "B", "C"}

\* the end-to-end scenario of the specification: {A: 50, B: 30, C: 20}
ScenarioCounts == [m \in WeightProducts |->
                      CASE m = "A" -> 50 [] m = "B" -> 30 [] OTHER -> 20]

CountMaps ==
    {ScenarioCounts} \cup
    UNION {[ks -> 0..MaxCount] : ks \in SUBSET WeightProducts}

NotCalled == [called |-> FALSE, raised |-> None, warned |-> FALSE, weights |-> EmptyMap]

WInit ==
    /\ monthly_counts \in CountMaps
    /\ wret = NotCalled

CalculateWeights ==
    /\ ~wret.called
    /\ wret' = calculate_weights(monthly_counts)
    /\ UNCHANGED monthly_counts


(***************************************************************************)
(* Cell values and the label encoder (sklearn LabelEncoder: classes_ is    *)
(* the sorted sequence of the distinct values it was fitted on, a value's  *)
(* code is its position in classes_ counted from 0).                       *)
(***************************************************************************)
Strings == <<"", "A", "DRAGON", "DRAGON AB", "M1", "P1", "P2", "P3", "S1", "S2",
             "SPEED CONTROLLER", "MIBUNRYU", "BUPUMBULLYANG", "SEOLGYEBULLYANG",
             "JAGEOPBULLYANG">>

S(name) == Len(Strings) + (CHOOSE i \in 1..Len(Strings) : Strings[i] = name)

NaN == 0 - 1

Columns == {"product", "part", "stage", "major", "minor"}

\* line 50: columns_to_encode, in the order of the loop
columns_to_encode == <<"product", "part", "stage", "major", "minor">>

RECURSIVE SortedSeq(_)
\* np.unique: the distinct values in ascending order
SortedSeq(values) ==
    IF values = {} THEN <<>>
    ELSE LET least == CHOOSE x \in values : \A y \in values : x <= y
         IN <<least>> \o SortedSeq(values \ {least})

Range(seq) == {seq[i] : i \in 1..Len(seq)}

\* LabelEncoder.fit
Fit(values) == SortedSeq(values)

\* LabelEncoder.transform raises ValueError on a value that is not in classes_
Known(classes, v) == v \in Range(classes)

\* a transform that numbers the classes from one
Code_FromOne(classes, v) == CHOOSE i \in 1..Len(classes) : classes[i] = v

\* LabelEncoder.transform of a known value
Code(classes, v) == (CHOOSE i \in 1..Len(classes) : classes[i] = v) - 1

\* LabelEncoder.inverse_transform raises ValueError unless the code indexes classes_
ValidCode(classes, c) == c \in 0..(Len(classes) - 1)

\* LabelEncoder.inverse_transform of a valid code
Decode(classes, c) == classes[c + 1]

\* lines 30-38: product_name_mapping.get(product_name, product_name)
normalize_product_name(v) == IF v = S("DRAGON AB") THEN S("DRAGON") ELSE v

\* a fillna that leaves the missing value in place
Fillna_Keep(v) == v

\* line 54: fillna
Fillna(v) == IF v = NaN THEN S("MIBUNRYU") ELSE v

ColumnValues(d, column) == {d[i][column] : i \in 1..Len(d)}

(***************************************************************************)
(* TfidfVectorizer(max_df, min_df).fit: the vocabulary keeps the terms     *)
(* whose document frequency df satisfies min_df <= df <= max_df * n; the   *)
(* fit raises ValueError when max_df * n < min_df and when no term is      *)
(* left.  Only the vocabulary (the width of the text features) is kept.    *)
(***************************************************************************)
Terms(d) == UNION {Range(d[i].keywords) : i \in 1..Len(d)}

DocFreq(d, t) == Cardinality({i \in 1..Len(d) : t \in Range(d[i].keywords)})

TfidfFitFails(d) ==
    \/ max_df_pct * Len(d) < min_df * 100
    \/ ~ \E t \in Terms(d) :
           /\ DocFreq(d, t) >= min_df
           /\ DocFreq(d, t) * 100 <= max_df_pct * Len(d)

TfidfVocabulary(d) ==
    {t \in Terms(d) : /\ DocFreq(d, t) >= min_df
                      /\ DocFreq(d, t) * 100 <= max_df_pct * Len(d)}

\* the width of the matrix for d under a vocabulary refitted on d
TransformWidth_Refit(tfidf, d) == 3 + Cardinality(TfidfVocabulary(d))

\* lines 80-85 and 292-297: three numeric columns and one column per term of the
\* fitted vocabulary, whatever the terms of d
TransformWidth(tfidf, d) == 3 + Cardinality(tfidf.vocabulary)

\* self.tfidf_vectorizer: None, a vectorizer whose fit raised, or a fitted one
NoVectorizer == [exists |-> FALSE, fitted |-> FALSE, vocabulary |-> {}]
Unfitted == [exists |-> TRUE, fitted |-> FALSE, vocabulary |-> {}]
Fitted(vocabulary) == [exists |-> TRUE, fitted |-> TRUE, vocabulary |-> vocabulary]

(***************************************************************************)
(* prepare_features, lines 40-102.  The loop over columns_to_encode writes *)
(* the codes into the caller's DataFrame and fits, reuses or refits one    *)
(* encoder per column; then the text features and the labels are built.    *)
(* The result carries what the call leaves behind also when it raises.     *)
(***************************************************************************)
\* a loop body that extends the fitted vocabulary with the values of the batch
EncoderAfter_Extend(encoders, d, column) ==
    IF column \notin DOMAIN encoders THEN Fit(ColumnValues(d, column))
    ELSE Fit(ColumnValues(d, column) \cup Range(encoders[column]))

\* lines 56-69 for one column: the encoder after the loop body
EncoderAfter(encoders, d, column) ==
    LET values == ColumnValues(d, column)
    IN IF column \notin DOMAIN encoders THEN Fit(values)
       ELSE IF \A v \in values : Known(encoders[column], v) THEN encoders[column]
       ELSE Fit(values)

\* lines 56-69: a fitted vocabulary is replaced because the batch holds an unseen label
Drift(encoders, d, column) ==
    /\ column \in DOMAIN encoders
    /\ \E v \in ColumnValues(d, column) : ~Known(encoders[column], v)

\* lines 45-54: the frame after the product names are normalized and NaN is filled
Cleaned(d) ==
    Eager([i \in 1..Len(d) |->
              [d[i] EXCEPT !.product = Fillna(normalize_product_name(d[i].product)),
                           !.part = Fillna(d[i].part),
                           !.stage = Fillna(d[i].stage),
                           !.major = Fillna(d[i].major),
                           !.minor = Fillna(d[i].minor)]])

\* lines 52-69: the encoders after the loop
EncodersAfter(encoders, cleaned) ==
    Eager([column \in Columns |-> EncoderAfter(encoders, cleaned, column)])

\* lines 52-69: the frame after the loop
Encoded(enc, cleaned) ==
    Eager([i \in 1..Len(cleaned) |->
              [cleaned[i] EXCEPT !.product = Code(enc["product"], cleaned[i].product),
                                 !.part = Code(enc["part"], cleaned[i].part),
                                 !.stage = Code(enc["stage"], cleaned[i].stage),
                                 !.major = Code(enc["major"], cleaned[i].major),
                                 !.minor = Code(enc["minor"], cleaned[i].minor)]])

\* line 93: data["major"].mode()[0], the most frequent value, the smallest on a tie
Mode(d) ==
    LET count(v) == Cardinality({i \in 1..Len(d) : d[i].major = v})
        values == ColumnValues(d, "major")
    IN CHOOSE v \in values :
           \A w \in values : count(w) < count(v) \/ (count(w) = count(v) /\ v <= w)

\* lines 88-97: the labels y of an encoded frame
Labels(encoders, d) ==
    IF Known(encoders["major"], S("BUPUMBULLYANG"))
    THEN Eager([i \in 1..Len(d) |->
                   IF d[i].major = Code(encoders["major"], S("BUPUMBULLYANG"))
                   THEN 1 ELSE 0])
    ELSE Eager([i \in 1..Len(d) |-> IF d[i].major = Mode(d) THEN 1 ELSE 0])

\* lines 71-102, after the loop over the columns has left the frame e and the encoders enc
Featurized(d, encoders, tfidf, cleaned, enc, e) ==
    LET fit == ~tfidf.exists
        base == [raised |-> None, data |-> e, label_encoders |-> enc,
                 tfidf_vectorizer |-> tfidf, fit_now |-> fit,
                 drift |-> {c \in Columns : Drift(encoders, cleaned, c)},
                 substituted |-> FALSE, rows |-> 0, width |-> 0, y |-> <<>>]
    IN IF fit /\ TfidfFitFails(e)
       THEN [base EXCEPT !.raised = "ValueError", !.tfidf_vectorizer = Unfitted]
       ELSE IF ~fit /\ ~tfidf.fitted
       THEN [base EXCEPT !.raised = "NotFittedError"]
       ELSE IF Len(d) = 0 /\ ~Known(enc["major"], S("BUPUMBULLYANG"))
       THEN \* line 93: mode()[0] of an empty column
            [base EXCEPT !.raised = "KeyError"]
       ELSE LET tv == IF fit THEN Fitted(TfidfVocabulary(e))
                      ELSE tfidf
            IN [base EXCEPT !.tfidf_vectorizer = tv,
                            !.substituted = ~Known(enc["major"], S("BUPUMBULLYANG")),
                            !.rows = Len(d),
                            !.width = TransformWidth(tv, e),
                            !.y = Labels(enc, e)]

EncodedBy(d, encoders, tfidf, cleaned, enc) ==
    Featurized(d, encoders, tfidf, cleaned, enc, Encoded(enc, cleaned))

CleanedThen(d, encoders, tfidf, cleaned) ==
    EncodedBy(d, encoders, tfidf, cleaned, EncodersAfter(encoders, cleaned))

prepare_features(d, encoders, tfidf) == CleanedThen(d, encoders, tfidf, Cleaned(d))


(***************************************************************************)
(* train_model, lines 104-152.  train_test_split and RandomForest are      *)
(* library code: the split takes ceil(test_size * n) rows for the test set *)
(* and raises ValueError when the train set would be empty or when a       *)
(* stratified split is impossible (a class with fewer than 2 rows, fewer   *)
(* train or test rows than classes).  The fitted forest is kept as the     *)
(* classes it saw (classes_), the number of columns it was fitted on and   *)
(* the function from a feature row to the probability of class 1 it        *)
(* computes.  The forests explored are a constant one and one whose        *)
(* probability grows with the code of the part; probabilities are in       *)
(* ten-thousandths.                                                        *)
(***************************************************************************)
ConstantForest == [column |-> "none", base |-> 5000, step |-> 0]

Forests == {ConstantForest, [column |-> "part", base |-> 2502, step |-> 4]}

\* predict_proba(x)[1] of a forest fitted on two classes
Proba(forest, row) ==
    IF forest.column = "none" THEN forest.base
    ELSE forest.base + forest.step * row[forest.column]

Classes(y) == {y[i] : i \in 1..Len(y)}

TestRows(n) == (test_size_tenths * n + 9) \div 10

\* line 125: stratify=y if len(np.unique(y)) > 1 else None
Stratified(y) == Cardinality(Classes(y)) > 1

SplitFails(y) ==
    LET n == Len(y)
        n_test == TestRows(n)
        n_train == n - n_test
    IN \/ n = 0
       \/ n_train = 0
       \/ /\ Stratified(y)
          /\ \/ \E c \in Classes(y) : Cardinality({i \in 1..n : y[i] = c}) < 2
             \/ n_train < Cardinality(Classes(y))
             \/ n_test < Cardinality(Classes(y))

\* lines 354-372: get_feature_importance, the number of (name, importance) pairs returned
get_feature_importance(trained, names, mdl) ==
    IF ~trained THEN 0
    ELSE LET zipped == IF 3 + Cardinality(names.names) < mdl.n_features
                       THEN 3 + Cardinality(names.names) ELSE mdl.n_features
         IN IF zipped < 20 THEN zipped ELSE 20

\* self.model: None or the fitted forest
NoModel == [exists |-> FALSE, classes |-> {}, n_features |-> 0, forest |-> ConstantForest]

\* self.feature_names: None or the terms of the fitted vectorizer
NoNames == [exists |-> FALSE, names |-> {}]

\* models/defect_predictor.pkl before the first save_model
NoFile == [exists |-> FALSE, model |-> NoModel, label_encoders |-> EmptyMap,
           tfidf_vectorizer |-> NoVectorizer, feature_names |-> NoNames,
           is_trained |-> FALSE]

NoReport == [returned |-> FALSE, train_size |-> 0, test_size |-> 0,
             feature_importance |-> 0, classes |-> {}]

\* ret: the call, the exception it raised, what it returned (returns names the parts
\* of the returned value: the pair (X, y) of line 102, the dict of lines 147-152, the
\* list of line 340), the shape of the feature matrix it built, and the warnings it
\* logged on lines 64 and 95 (drift: the columns refitted; substituted: the target);
\* counts is the monthly_production_counts argument of predict_defect_probability
NoResult == [op |-> "__init__", raised |-> None, path |-> None,
             sample |-> <<>>, predictions |-> <<>>, report |-> NoReport,
             returns |-> {}, x_shape |-> <<0, 0>>, y |-> <<>>,
             drift |-> {}, substituted |-> FALSE, counts |-> EmptyMap]

(***************************************************************************)
(* predict_defect_probability, lines 154-340.                              *)
(***************************************************************************)
\* keys of a production-count map are product names
KeyValue(k) == S(k)

\* lines 342-352: _get_production_weight
get_production_weight(encoders, encoded_product, production_weights) ==
    IF "product" \in DOMAIN encoders /\ ValidCode(encoders["product"], encoded_product)
    THEN LET product_name == Decode(encoders["product"], encoded_product)
         IN IF \E k \in DOMAIN production_weights : KeyValue(k) = product_name
            THEN production_weights[CHOOSE k \in DOMAIN production_weights :
                                        KeyValue(k) = product_name]
            ELSE <<1, 100>>
    ELSE <<1, 100>>

\* lines 174-184: data_copy with its production_weight column
DataCopy(d, encoders, production_weights) ==
    Eager([i \in 1..Len(d) |->
        [id |-> d[i].id, product |-> d[i].product, part |-> d[i].part,
         stage |-> d[i].stage, major |-> d[i].major, minor |-> d[i].minor,
         keywords |-> d[i].keywords,
         production_weight |->
             IF DOMAIN production_weights # {}
             THEN get_production_weight(encoders, d[i].product, production_weights)
             ELSE <<1, 1>>]])

\* lines 189-195: the code of the noise part, when the part vocabulary knows it
SpeedControllerEncoded(encoders) ==
    IF "part" \in DOMAIN encoders /\ Known(encoders["part"], S("SPEED CONTROLLER"))
    THEN {Code(encoders["part"], S("SPEED CONTROLLER"))}
    ELSE {}

\* lines 212-218: the rows of one product without the rows of the noise part
ModelData(dc, model_encoded, speed_controller) ==
    SelectSeq(dc, LAMBDA r : r.product = model_encoded /\ r.part \notin speed_controller)

PartCount(rows, p) == Cardinality({i \in 1..Len(rows) : rows[i].part = p})

\* every part of the product instead of the two largest groups
TopParts_All(rows) == SortedSeq({rows[i].part : i \in 1..Len(rows)})

\* lines 224-239: groupby part, nlargest(2) of the group sizes; on equal sizes the
\* group that comes first, that is the smaller part code, wins
TopParts(rows) ==
    LET parts == {rows[i].part : i \in 1..Len(rows)}
        Best(ps) == CHOOSE p \in ps : \A q \in ps :
                        \/ PartCount(rows, q) < PartCount(rows, p)
                        \/ PartCount(rows, q) = PartCount(rows, p) /\ p <= q
    IN IF parts = {} THEN <<>>
       ELSE IF Cardinality(parts) = 1 THEN <<Best(parts)>>
       ELSE <<Best(parts), Best(parts \ {Best(parts)})>>

\* a representative tagged with the row count of its product instead of its group
Representative_ProductCount(rows, part_encoded, production_count) ==
    LET first == rows[CHOOSE i \in 1..Len(rows) :
                        /\ rows[i].part = part_encoded
                        /\ \A j \in 1..(i - 1) : rows[j].part # part_encoded]
    IN [id |-> first.id, product |-> first.product, part |-> first.part,
        stage |-> first.stage, major |-> first.major, minor |-> first.minor,
        keywords |-> first.keywords, production_weight |-> first.production_weight,
        diversity_weight |-> Len(rows),
        production_count |-> production_count]

\* lines 241-254: the first row of one (product, part) group, tagged
Representative(rows, part_encoded, production_count) ==
    LET first == rows[CHOOSE i \in 1..Len(rows) :
                        /\ rows[i].part = part_encoded
                        /\ \A j \in 1..(i - 1) : rows[j].part # part_encoded]
    IN [id |-> first.id, product |-> first.product, part |-> first.part,
        stage |-> first.stage, major |-> first.major, minor |-> first.minor,
        keywords |-> first.keywords, production_weight |-> first.production_weight,
        diversity_weight |-> PartCount(rows, part_encoded),
        production_count |-> production_count]

\* lines 210-258: the body of the loop for one product of the production counts
ModelRepresentatives(dc, encoders, counts, model_name) ==
    IF ~("product" \in DOMAIN encoders /\ Known(encoders["product"], KeyValue(model_name)))
    THEN <<>>
    ELSE LET model_data == ModelData(dc, Code(encoders["product"], KeyValue(model_name)),
                                     SpeedControllerEncoded(encoders))
             top_parts == TopParts(model_data)
         IN Eager([k \in 1..Len(top_parts) |->
                      Representative(model_data, top_parts[k], counts[model_name])])

RECURSIVE ConcatRepresentatives(_, _, _, _)
\* lines 209-262: the loop over the products in the order the set yields them
ConcatRepresentatives(dc, encoders, counts, order) ==
    IF order = <<>> THEN <<>>
    ELSE ModelRepresentatives(dc, encoders, counts, Head(order))
         \o ConcatRepresentatives(dc, encoders, counts, Tail(order))

\* x put before the first k rows' successors: rest[1..k], x, rest[k+1..]
InsertAfter(rest, k, x) == SubSeq(rest, 1, k) \o <<x>> \o SubSeq(rest, k + 1, Len(rest))

InsertByProductionCount(x, rest) ==
    InsertAfter(rest, Cardinality({i \in 1..Len(rest) :
                                      rest[i].production_count > x.production_count}), x)

\* the representatives left in the order of the loop
SortByProductionCount_LoopOrder(rows) == rows

RECURSIVE SortByProductionCount(_)
\* lines 264-266: sort_values("production_count", ascending=False); rows with equal
\* counts keep their order
SortByProductionCount(rows) ==
    IF rows = <<>> THEN <<>>
    ELSE InsertByProductionCount(Head(rows), SortByProductionCount(Tail(rows)))

\* the orders in which a Python set of these keys can be iterated
Orders(keys) ==
    {o \in [1..Cardinality(keys) -> keys] : \A i, j \in 1..Cardinality(keys) :
                                                i # j => o[i] # o[j]}

Min(a, b) == IF a < b THEN a ELSE b

\* a fallback that samples every row, whatever sample_size
FallbackSamples_Whole(dc) == {dc}

\* lines 269-281: sample(n, weights) draws n distinct rows; every row has a positive
\* weight, so every row can be drawn.  The draws explored are the rotations of the frame.
FallbackSamples(dc) ==
    LET n == Len(dc)
        k == Min(sample_size, n)
    IN IF n = 0 THEN {<<>>}
       ELSE {Eager([i \in 1..k |-> dc[((i + o - 1) % n) + 1]]) : o \in 0..(n - 1)}

\* lines 198-281: the sampled frames one call can produce
Samples(dc, encoders, counts) ==
    LET representative ==
            {SortByProductionCount(ConcatRepresentatives(dc, encoders, counts, o)) :
                 o \in Orders(DOMAIN counts)}
    IN IF \E r \in representative : r # <<>>
       THEN {[path |-> "representative", rows |-> r] : r \in representative}
       ELSE {[path |-> "fallback", rows |-> r] : r \in FallbackSamples(dc)}

\* lines 300 and 324: round(float(p * 100), 1) of a probability p in ten-thousandths,
\* in tenths of a percent
Rate(p) == (p + 5) \div 10

\* lines 304-327: one prediction; idx is the position of its row in the sample
Prediction(encoders, row, p, idx) ==
    [model_name |-> Decode(encoders["product"], row.product),
     stage |-> Decode(encoders["stage"], row.stage),
     part |-> IF ValidCode(encoders["part"], row.part)
              THEN Decode(encoders["part"], row.part) ELSE S("MIBUNRYU"),
     rate |-> Rate(p),
     keywords |-> row.keywords,
     idx |-> idx]

InsertByRate_AfterTies(x, rest) ==
    InsertAfter(rest, Cardinality({i \in 1..Len(rest) : rest[i].rate >= x.rate}), x)

InsertByRate(x, rest) ==
    InsertAfter(rest, Cardinality({i \in 1..Len(rest) : rest[i].rate > x.rate}), x)

RECURSIVE SortedByRate_Unstable(_)
\* a sort by rate that does not keep equal rates in their order
SortedByRate_Unstable(predictions) ==
    IF predictions = <<>> THEN <<>>
    ELSE InsertByRate_AfterTies(Head(predictions), SortedByRate_Unstable(Tail(predictions)))

RECURSIVE SortedByRate(_)
\* lines 330-332: sorted(predictions, key=rate, reverse=True); Python's sort is stable
\* also with reverse=True
SortedByRate(predictions) ==
    IF predictions = <<>> THEN <<>>
    ELSE InsertByRate(Head(predictions), SortedByRate(Tail(predictions)))

\* the sorted list without the slice of line 332
TopN_All(predictions) == predictions

\* line 332: [: ml_config.top_predictions_count]
TopN(predictions) == SubSeq(predictions, 1, Min(top_predictions_count, Len(predictions)))

PredictResult(path, rows, raised, predictions) ==
    [NoResult EXCEPT !.op = "predict_defect_probability", !.raised = raised,
                     !.path = path, !.sample = rows, !.predictions = predictions,
                     !.returns = IF raised = None THEN {"predictions"} ELSE {}]

\* lines 292-297: the result of a call that built the matrix X_sample
Shaped(result, rows, tfidf) ==
    [result EXCEPT !.x_shape = <<Len(rows), TransformWidth(tfidf, rows)>>]

\* lines 283-340: scoring one sampled frame
Scored(sample, encoders, tfidf, mdl) ==
    LET rows == sample.rows
        n == Len(rows)
    IN IF \E i \in 1..n : ~ValidCode(encoders["product"], rows[i].product)
       THEN \* line 285: inverse_transform of a value that is no code
            {PredictResult(sample.path, rows, "ValueError", <<>>)}
       ELSE IF ~tfidf.fitted
       THEN {PredictResult(sample.path, rows, "NotFittedError", <<>>)}
       ELSE IF n = 0 \/ TransformWidth(tfidf, rows) # mdl.n_features
       THEN \* line 300: predict_proba rejects an empty or a misshapen matrix
            {Shaped(PredictResult(sample.path, rows, "ValueError", <<>>), rows, tfidf)}
       ELSE IF Cardinality(mdl.classes) < 2
       THEN \* line 300: [:, 1] of a one-column probability matrix
            {Shaped(PredictResult(sample.path, rows, "IndexError", <<>>), rows, tfidf)}
       ELSE IF \E i \in 1..n : ~ValidCode(encoders["stage"], rows[i].stage)
       THEN \* line 320
            {Shaped(PredictResult(sample.path, rows, "ValueError", <<>>), rows, tfidf)}
       ELSE {Shaped(PredictResult(sample.path, rows, None,
                        TopN(SortedByRate(Eager([i \in 1..n |->
                            Prediction(encoders, rows[i], Proba(mdl.forest, rows[i]), i)])))),
                    rows, tfidf)}

\* lines 168-281 then 283-340: every result one call can produce
PredictOutcomes(d, encoders, tfidf, mdl, counts, production_weights) ==
    UNION {Scored(s, encoders, tfidf, mdl) :
               s \in Samples(DataCopy(d, encoders, production_weights), encoders, counts)}


(***************************************************************************)
(* The caller's DataFrame.  The frames explored hold the rows of product   *)
(* "A" followed by the rows of product "DRAGON AB" (which line 46 renames  *)
(* to "DRAGON"), each product with up to MaxBlock rows, laid out in the    *)
(* order of their parts.  Stage and keywords alternate with the row        *)
(* position; the major category alternates ("mixed") or is the target on   *)
(* every row ("single").  The frames of SpecSampler are the mixed ones     *)
(* with every part; the frames of Spec have the part P1 on every row.      *)
(***************************************************************************)
PartsA == {S("P1"), S("P2"), S("P3"), S("SPEED CONTROLLER")}
PartsD == {S("P1"), S("SPEED CONTROLLER")}

Blocks(parts) ==
    UNION {{b \in [1..n -> parts] : \A i, j \in 1..n : i < j => b[i] <= b[j]} :
               n \in 0..MaxBlock}

Labellings == {"mixed", "single"}

Row(i, product, part, labelling) ==
    [id |-> i, product |-> product, part |-> part,
     stage |-> IF i % 2 = 1 THEN S("S1") ELSE S("S2"),
     major |-> IF labelling = "single" \/ i % 2 = 1
               THEN S("BUPUMBULLYANG") ELSE S("JAGEOPBULLYANG"),
     minor |-> S("M1"),
     keywords |-> IF i % 2 = 1 THEN <<"leak">> ELSE <<"crack">>]

Frame(blockA, blockB, labelling) ==
    Eager([i \in 1..(Len(blockA) + Len(blockB)) |->
              IF i <= Len(blockA)
              THEN Row(i, S("A"), blockA[i], labelling)
              ELSE Row(i, S("DRAGON AB"), blockB[i - Len(blockA)], labelling)])

Frames == {Frame(a, b, "mixed") : a \in Blocks(PartsA), b \in Blocks(PartsD)}

PlainFrames == {Frame(a, b, l) : a \in Blocks({S("P1")}), b \in Blocks({S("P1")}),
                                 l \in Labellings}

(***************************************************************************)
(* The frames of SpecFallback: rows of product "A" only, one fewer than    *)
(* sample_size up to MaxExtra more than sample_size, the first half of     *)
(* part P1 and the rest of part P2.                                        *)
(***************************************************************************)
MaxExtra == 1

LongFrames ==
    {Frame([i \in 1..n |-> IF 2 * i <= n THEN S("P1") ELSE S("P2")], <<>>, l) :
         n \in (sample_size - 1)..(sample_size + MaxExtra), l \in Labellings}

(***************************************************************************)
(* The batches of SpecFeatures: MaxBatch - 1 or MaxBatch rows of product   *)
(* "A" whose part is missing (NaN), empty or the literal fill value on the  *)
(* first row and the literal fill value on the rows after it.  The         *)
(* major category alternates between the target and another ("mixed"), is  *)
(* one other category on every row ("uniform"), or is one other category   *)
(* on the first row and a second on the rest ("others").  The keywords     *)
(* repeat those of the frames ("plain") or bring a term of their own       *)
(* ("new").                                                                *)
(***************************************************************************)
MaxBatch == 3

BatchParts == {NaN, S(""), S("MIBUNRYU")}
BatchMajors == {"mixed", "uniform", "others"}
BatchWords == {"plain", "new"}

BatchRow(i, part, majors, words) ==
    [id |-> i, product |-> S("A"), part |-> part,
     stage |-> IF i % 2 = 1 THEN S("S1") ELSE S("S2"),
     major |-> CASE majors = "uniform" -> S("JAGEOPBULLYANG")
                 [] majors = "mixed" -> IF i % 2 = 1 THEN S("BUPUMBULLYANG")
                                        ELSE S("JAGEOPBULLYANG")
                 [] OTHER -> IF i = 1 THEN S("SEOLGYEBULLYANG") ELSE S("JAGEOPBULLYANG"),
     minor |-> S("M1"),
     keywords |-> IF i % 2 = 0 THEN <<"crack">>
                  ELSE IF words = "new" THEN <<"burr">> ELSE <<"leak">>]

Batch(parts, majors, words) ==
    Eager([i \in 1..Len(parts) |-> BatchRow(i, parts[i], majors, words)])

Batches ==
    {Batch(b, m, w) :
         b \in UNION {{c \in [1..n -> BatchParts] :
                           \A i \in 2..n : c[i] = S("MIBUNRYU")} :
                          n \in (MaxBatch - 1)..MaxBatch},
         m \in BatchMajors, w \in BatchWords}

\* the production counts a caller passes to predict_defect_probability
MaxProduction == 2
CountKeys == {"A", "DRAGON"}
PredictCounts == UNION {[ks -> 1..MaxProduction] : ks \in SUBSET CountKeys}

\* the production counts of Spec: one unit of every product named
UnitCounts == UNION {[ks -> {1}] : ks \in SUBSET CountKeys}

(***************************************************************************)
(* Spec: one predictor, the caller's frame and the model file, under every *)
(* order of calls, on the plain frames with unit production counts.        *)
(* SpecSampler: a predictor that is trained once, as main.py does (lines   *)
(* 106 and 327-328), and then asked for predictions, on the larger set of  *)
(* frames with every production-count map.                                 *)
(***************************************************************************)
InitWith(frames) ==
    /\ monthly_counts = EmptyMap
    /\ wret = NotCalled
    /\ records \in frames
    /\ data = records
    /\ model = NoModel
    /\ label_encoders = EmptyMap
    /\ tfidf_vectorizer = NoVectorizer
    /\ feature_names = NoNames
    /\ is_trained = FALSE
    /\ monthly_production_counts = EmptyMap   \* the attribute does not exist yet
    /\ file = NoFile
    /\ ret = NoResult

\* lines 22-27: a fresh DefectPredictor replaces the predictor
NewPredictor ==
    /\ ret.op # "__init__"
    /\ model' = NoModel
    /\ label_encoders' = EmptyMap
    /\ tfidf_vectorizer' = NoVectorizer
    /\ feature_names' = NoNames
    /\ is_trained' = FALSE
    /\ monthly_production_counts' = EmptyMap
    /\ ret' = NoResult
    /\ UNCHANGED <<monthly_counts, wret, records, data, file>>

\* what a call that ran prepare_features leaves in ret: the exception, the matrix
\* shape and the labels of line 102, the warnings of lines 64 and 95
Featured(op, pf) ==
    [NoResult EXCEPT !.op = op, !.raised = pf.raised,
                     !.x_shape = <<pf.rows, pf.width>>, !.y = pf.y,
                     !.drift = pf.drift, !.substituted = pf.substituted]

\* lines 40-102 called by the caller itself: the return value is the pair (X, y)
PrepareFeatures ==
    LET pf == prepare_features(data, label_encoders, tfidf_vectorizer)
    IN /\ data' = pf.data
       /\ label_encoders' = pf.label_encoders
       /\ tfidf_vectorizer' = pf.tfidf_vectorizer
       /\ feature_names' = IF pf.fit_now /\ pf.tfidf_vectorizer.fitted
                           THEN [exists |-> TRUE, names |-> pf.tfidf_vectorizer.vocabulary]
                           ELSE feature_names
       /\ ret' = [Featured("prepare_features", pf) EXCEPT
                      !.returns = IF pf.raised = None THEN {"X", "y"} ELSE {}]
       /\ UNCHANGED <<monthly_counts, wret, records, model, is_trained,
                      monthly_production_counts, file>>

\* teams_loader.py lines 293-345 (main.py lines 73-83, daily_dashboard.py line 46):
\* the caller reads the defect records again, after it has used the ones it had; the
\* source holds one of frames by then and the frame read is raw
LoadDefectData(frames) ==
    /\ ret.op \notin {"__init__", "load_defect_data"}
    /\ records' \in frames
    /\ data' = records'
    /\ ret' = [NoResult EXCEPT !.op = "load_defect_data"]
    /\ UNCHANGED <<monthly_counts, wret, model, label_encoders, tfidf_vectorizer,
                   feature_names, is_trained, monthly_production_counts, file>>

\* is_trained set although train_model raised
TrainedAfter_Always(failed, trained) == TRUE

\* lines 109-145: is_trained is set on the last line but one; an exception raised
\* before it leaves the flag as it was
TrainedAfter(failed, trained) == IF failed THEN trained ELSE TRUE

\* lines 104-152: what a train_model call on frame d leaves in the caller's frame, in
\* the fields of the predictor and in ret
train_model(forest, d, encoders, tfidf, names_before, mdl, trained) ==
    LET pf == prepare_features(d, encoders, tfidf)
        names == IF pf.fit_now /\ pf.tfidf_vectorizer.fitted
                 THEN [exists |-> TRUE, names |-> pf.tfidf_vectorizer.vocabulary]
                 ELSE names_before
        failed == pf.raised # None \/ SplitFails(pf.y)
        fitted == [exists |-> TRUE, classes |-> Classes(pf.y), n_features |-> pf.width,
                   forest |-> IF Cardinality(Classes(pf.y)) > 1 THEN forest
                              ELSE ConstantForest]
    IN [data |-> pf.data,
        label_encoders |-> pf.label_encoders,
        tfidf_vectorizer |-> pf.tfidf_vectorizer,
        feature_names |-> names,
        model |-> IF failed THEN mdl ELSE fitted,
        is_trained |-> TrainedAfter(failed, trained),
        ret |-> [Featured("train_model", pf) EXCEPT
                      !.raised = IF pf.raised # None THEN pf.raised
                                 ELSE IF SplitFails(pf.y) THEN "ValueError" ELSE None,
                      !.returns = IF failed THEN {}
                                  ELSE {"accuracy", "train_size", "test_size",
                                        "feature_importance"},
                      !.report = IF failed THEN NoReport
                                 ELSE [returned |-> TRUE,
                                       train_size |-> Len(pf.y) - TestRows(Len(pf.y)),
                                       test_size |-> TestRows(Len(pf.y)),
                                       feature_importance |->
                                           get_feature_importance(trained, names, fitted),
                                       classes |-> Classes(pf.y)]]]

\* lines 104-152
TrainModel ==
    \E forest \in Forests :
    LET t == train_model(forest, data, label_encoders, tfidf_vectorizer, feature_names,
                         model, is_trained)
    IN /\ data' = t.data
       /\ label_encoders' = t.label_encoders
       /\ tfidf_vectorizer' = t.tfidf_vectorizer
       /\ feature_names' = t.feature_names
       /\ model' = t.model
       /\ is_trained' = t.is_trained
       /\ ret' = t.ret
       /\ UNCHANGED <<monthly_counts, wret, records, monthly_production_counts, file>>

\* lines 154-340: the outcomes of one predict_defect_probability call with the
\* argument counts on frame d: what it leaves in ret and in the remembered counts
predict_defect_probability(d, encoders, tfidf, mdl, trained, remembered, counts) ==
    IF ~trained
    THEN {[ret |-> [PredictResult(None, <<>>, "ValueError: not trained", <<>>)
                        EXCEPT !.counts = counts],
           monthly_production_counts |-> remembered]}
    ELSE LET used == IF DOMAIN counts # {} THEN counts ELSE remembered
         IN {[ret |-> [result EXCEPT !.counts = counts],
              monthly_production_counts |-> used] :
                 result \in PredictOutcomes(d, encoders, tfidf, mdl, used,
                                            calculate_weights(counts).weights)}

\* a prediction that featurizes the caller's frame in place, as train_model does,
\* before it samples
PredictDefectProbability_InPlace(count_maps) ==
    \E counts \in count_maps :
    LET pf == prepare_features(data, label_encoders, tfidf_vectorizer)
    IN \E outcome \in predict_defect_probability(pf.data, pf.label_encoders,
                                                 pf.tfidf_vectorizer, model, is_trained,
                                                 monthly_production_counts, counts) :
        /\ ret' = outcome.ret
        /\ monthly_production_counts' = outcome.monthly_production_counts
        /\ data' = pf.data
        /\ label_encoders' = pf.label_encoders
        /\ tfidf_vectorizer' = pf.tfidf_vectorizer
        /\ UNCHANGED <<monthly_counts, wret, records, model, feature_names, is_trained,
                       file>>

\* lines 154-340; the caller passes one of count_maps and the weights computed from
\* it (main.py lines 113-123), or neither
PredictDefectProbability(count_maps) ==
    \E counts \in count_maps :
    \E outcome \in predict_defect_probability(data, label_encoders, tfidf_vectorizer,
                                              model, is_trained,
                                              monthly_production_counts, counts) :
        /\ ret' = outcome.ret
        /\ monthly_production_counts' = outcome.monthly_production_counts
        /\ UNCHANGED <<monthly_counts, wret, records, data, model, label_encoders,
                       tfidf_vectorizer, feature_names, is_trained, file>>

\* a bundle that leaves the flag out: it reads back as not trained
Bundle_WithoutFlag(mdl, encoders, tfidf, names, trained) ==
    [exists |-> TRUE, model |-> mdl, label_encoders |-> encoders,
     tfidf_vectorizer |-> tfidf, feature_names |-> names, is_trained |-> FALSE]

\* lines 393-402: model_data, pickled to the file
Bundle(mdl, encoders, tfidf, names, trained) ==
    [exists |-> TRUE, model |-> mdl, label_encoders |-> encoders,
     tfidf_vectorizer |-> tfidf, feature_names |-> names, is_trained |-> trained]

\* lines 389-405
SaveModel ==
    /\ file' = Bundle(model, label_encoders, tfidf_vectorizer, feature_names, is_trained)
    /\ ret' = [NoResult EXCEPT !.op = "save_model"]
    /\ UNCHANGED <<monthly_counts, wret, records, data, model, label_encoders, tfidf_vectorizer,
                   feature_names, is_trained, monthly_production_counts>>

\* lines 407-426: the fields of the predictor after load_model; a missing file is
\* logged (line 422) and leaves them as they were
load_model(f, mdl, encoders, tfidf, names, trained) ==
    IF ~f.exists
    THEN [model |-> mdl, label_encoders |-> encoders, tfidf_vectorizer |-> tfidf,
          feature_names |-> names, is_trained |-> trained]
    ELSE [model |-> f.model, label_encoders |-> f.label_encoders,
          tfidf_vectorizer |-> f.tfidf_vectorizer, feature_names |-> f.feature_names,
          is_trained |-> f.is_trained]

\* lines 407-426
LoadModel ==
    LET loaded == load_model(file, model, label_encoders, tfidf_vectorizer, feature_names,
                             is_trained)
    IN /\ model' = loaded.model
       /\ label_encoders' = loaded.label_encoders
       /\ tfidf_vectorizer' = loaded.tfidf_vectorizer
       /\ feature_names' = loaded.feature_names
       /\ is_trained' = loaded.is_trained
       /\ ret' = [NoResult EXCEPT !.op = "load_model"]
       /\ UNCHANGED <<monthly_counts, wret, records, data, monthly_production_counts, file>>

Next ==
    \/ LoadDefectData({records})
    \/ NewPredictor
    \/ TrainModel
    \/ PredictDefectProbability(UnitCounts)
    \/ SaveModel
    \/ LoadModel

Init == InitWith(PlainFrames)

Spec == Init /\ [][Next]_vars

SamplerInit == InitWith(Frames)

SamplerNext ==
    \/ ret.op = "__init__" /\ TrainModel
    \/ is_trained /\ PredictDefectProbability(PredictCounts)

SpecSampler == SamplerInit /\ [][SamplerNext]_vars

(***************************************************************************)
(* SpecFeatures: the caller loads a batch, has it featurized or trains on  *)
(* it, asks the trained predictor for predictions (without production      *)
(* counts, which leaves the sampling to the fallback), and loads the next  *)
(* batch.                                                                  *)
(***************************************************************************)
FeaturesInit == InitWith(Batches)

FeaturesCounts == {EmptyMap}

FeaturesNext ==
    \/ LoadDefectData(Batches)
    \/ PrepareFeatures
    \/ TrainModel
    \/ (is_trained /\ PredictDefectProbability(FeaturesCounts))

SpecFeatures == FeaturesInit /\ [][FeaturesNext]_vars

(***************************************************************************)
(* SpecFallback: a predictor trained once on a frame about as long as the  *)
(* fallback sample and then asked for predictions; production counts that  *)
(* name no product of the frame leave the sampling to the fallback.        *)
(***************************************************************************)
FallbackInit == InitWith(LongFrames)

FallbackNext ==
    \/ ret.op = "__init__" /\ TrainModel
    \/ is_trained /\ PredictDefectProbability(PredictCounts)

SpecFallback == FallbackInit /\ [][FallbackNext]_vars

(***************************************************************************)
(* SpecPipeline: the system of main.py.  Every run of the process builds a *)
(* fresh predictor (line 51) and runs the prediction pipeline, which may   *)
(* be asked to use the model file that an earlier run left.  The source of  *)
(* the records holds the same records at every run.                        *)
(***************************************************************************)
\* sheets loader: the production counts of the month, never empty
PipelineCounts == UnitCounts \ {EmptyMap}

\* main.py lines 67-123: load the records, load or train (and save) the model, load
\* the counts, predict; an exception of any step ends the run (lines 273-275)
RunPredictionPipeline ==
    \E use_existing_model \in BOOLEAN, forest \in Forests, counts \in PipelineCounts :
    LET \* lines 97-103: load_model raises nothing when the file is missing, so
        \* use_existing_model stays as it was
        loaded == IF use_existing_model
                  THEN load_model(file, model, label_encoders, tfidf_vectorizer,
                                  feature_names, is_trained)
                  ELSE [model |-> model, label_encoders |-> label_encoders,
                        tfidf_vectorizer |-> tfidf_vectorizer,
                        feature_names |-> feature_names, is_trained |-> is_trained]
        \* lines 105-108
        t == IF use_existing_model
             THEN loaded @@ [data |-> records, ret |-> NoResult]
             ELSE train_model(forest, records, loaded.label_encoders,
                              loaded.tfidf_vectorizer, loaded.feature_names,
                              loaded.model, loaded.is_trained)
        failed == t.ret.raised # None
    IN /\ data' = t.data
       /\ model' = t.model
       /\ label_encoders' = t.label_encoders
       /\ tfidf_vectorizer' = t.tfidf_vectorizer
       /\ feature_names' = t.feature_names
       /\ is_trained' = t.is_trained
       /\ file' = IF use_existing_model \/ failed THEN file
                  ELSE Bundle(t.model, t.label_encoders, t.tfidf_vectorizer,
                              t.feature_names, t.is_trained)
       /\ IF failed
          THEN /\ ret' = [t.ret EXCEPT !.op = "run_prediction_pipeline"]
               /\ UNCHANGED monthly_production_counts
          ELSE \* lines 113-123
               \E outcome \in predict_defect_probability(
                                   t.data, t.label_encoders, t.tfidf_vectorizer, t.model,
                                   t.is_trained, monthly_production_counts, counts) :
                   /\ ret' = [outcome.ret EXCEPT !.op = "run_prediction_pipeline"]
                   /\ monthly_production_counts' = outcome.monthly_production_counts
       /\ UNCHANGED <<monthly_counts, wret, records>>

PipelineInit == InitWith(PlainFrames)

PipelineNext ==
    \/ NewPredictor
    \/ RunPredictionPipeline

SpecPipeline == PipelineInit /\ [][PipelineNext]_vars

WeightsInit ==
    /\ WInit
    /\ records = <<>>
    /\ data = <<>>
    /\ model = NoModel
    /\ label_encoders = EmptyMap
    /\ tfidf_vectorizer = NoVectorizer
    /\ feature_names = NoNames
    /\ is_trained = FALSE
    /\ monthly_production_counts = EmptyMap
    /\ file = NoFile
    /\ ret = NoResult

WeightsNext == CalculateWeights /\ UNCHANGED pvars

SpecWeights == WeightsInit /\ [][WeightsNext]_vars

(***************************************************************************)
(* Properties of calculate_weights, checked under SpecWeights.  wret is    *)
(* what the call on monthly_counts returned.                               *)
(***************************************************************************)
WeightsReturned ==
    /\ wret.called
    /\ DOMAIN monthly_counts # {}
    /\ SumInts(monthly_counts) > 0

\* C1: for every non-empty production-count map with positive total, every weight
\* calculate_weights returns lies in [min_weight, max_weight] = [0.05, 0.40]
C1_WeightsWithinBounds ==
    WeightsReturned =>
        \A m \in DOMAIN wret.weights :
            /\ RatLE(min_weight, wret.weights[m])
            /\ RatLE(wret.weights[m], max_weight)

\* C2: for every non-empty production-count map with positive total, the weights
\* returned have the key set of the input and sum to exactly 1
C2_SameKeysSumToOne ==
    WeightsReturned =>
        /\ wret.raised = None
        /\ DOMAIN wret.weights = DOMAIN monthly_counts
        /\ RatEq(SumRats(wret.weights), <<1, 1>>)

\* the counts {A:50, B:30, C:20} have been weighted: 4/9, 1/3, 2/9
C2_ScenarioWeighted ==
    /\ wret.called
    /\ monthly_counts = ScenarioCounts
    /\ RatEq(wret.weights["A"], <<4, 9>>)
    /\ RatEq(wret.weights["B"], <<3, 9>>)
    /\ RatEq(wret.weights["C"], <<2, 9>>)

\* C3: when the production-count map is empty, calculate_weights fails with an
\* error and returns no weight map
C3_EmptyCountsFail ==
    (wret.called /\ DOMAIN monthly_counts = {}) => wret.raised # None

(***************************************************************************)
(* Properties of the predictor.  ret is what the last call returned or     *)
(* raised; ret.sample is the sampled frame the call scored, and the idx of *)
(* a prediction is the position of its row in that frame.                  *)
(***************************************************************************)
Predicted == ret.op = "predict_defect_probability"

Returned == Predicted /\ ret.raised = None

\* C4: while is_trained is false, predict_defect_probability raises the not-trained
\* error and returns no predictions; is_trained turns from false to true only in
\* a train_model call that succeeds or in a load_model call of a bundle saved as
\* trained
C4_UntrainedUntilTrainedOrLoaded ==
    [][/\ (~is_trained /\ ret'.op = "predict_defect_probability")
              => /\ ret'.raised = "ValueError: not trained"
                 /\ ret'.predictions = <<>>
                 /\ ~is_trained'
       /\ (~is_trained /\ is_trained')
              => \/ ret'.op = "train_model" /\ ret'.raised = None
                 \/ ret'.op = "load_model" /\ file.exists /\ file.is_trained]_vars

\* predict_defect_probability has been called on a predictor that is not trained
C4_UntrainedPredictRaised ==
    /\ Predicted
    /\ ~is_trained
    /\ ret.raised = "ValueError: not trained"

\* C5: on a trained predictor every predict_defect_probability call completes and
\* every rate it returns lies in [0, 100] percent
C5_TrainedPredictCompletes ==
    (Predicted /\ is_trained) =>
        /\ ret.raised = None
        /\ \A i \in 1..Len(ret.predictions) :
               ret.predictions[i].rate >= 0 /\ ret.predictions[i].rate <= 1000

\* C6: the returned list is sorted non-increasing by rate, has at most
\* top_predictions_count entries and at most as many as the sample has rows
C6_SortedAndTruncated ==
    Returned =>
        /\ \A i, j \in 1..Len(ret.predictions) :
               i < j => ret.predictions[i].rate >= ret.predictions[j].rate
        /\ Len(ret.predictions) <= top_predictions_count
        /\ Len(ret.predictions) <= Len(ret.sample)

\* a sample of more rows than top_predictions_count was scored with different rates
C6_TruncatedList ==
    /\ Returned
    /\ Len(ret.sample) > top_predictions_count
    /\ Len(ret.predictions) = top_predictions_count
    /\ ret.predictions[1].rate > ret.predictions[top_predictions_count].rate

\* the rate of row k of the sample
SampleRate(k) == Rate(Proba(model.forest, ret.sample[k]))

\* C7: predictions of equal rate are in the order of their rows in the sample, and
\* a row that the truncation drops has a lower rate than every kept one or the
\* same rate and a later position
C7_StableTies ==
    Returned =>
        LET kept == {ret.predictions[i].idx : i \in 1..Len(ret.predictions)}
        IN /\ \A i, j \in 1..Len(ret.predictions) :
                  (i < j /\ ret.predictions[i].rate = ret.predictions[j].rate)
                      => ret.predictions[i].idx < ret.predictions[j].idx
           /\ \A k \in (1..Len(ret.sample)) \ kept :
                  \A i \in 1..Len(ret.predictions) :
                      \/ ret.predictions[i].rate > SampleRate(k)
                      \/ /\ ret.predictions[i].rate = SampleRate(k)
                         /\ ret.predictions[i].idx < k

\* the truncation dropped a row whose rate ties with kept rows, below a higher rate
C7_TieAtTheCut ==
    /\ Returned
    /\ Len(ret.sample) > top_predictions_count
    /\ ret.predictions[1].rate > ret.predictions[2].rate
    /\ \E k \in 1..Len(ret.sample) :
           /\ \A i \in 1..Len(ret.predictions) : ret.predictions[i].idx # k
           /\ SampleRate(k) = ret.predictions[top_predictions_count].rate

\* the call went as far as sampling
Sampled == Predicted /\ ret.path # None

\* the products of the production counts that the product vocabulary knows
KnownProducts ==
    {k \in DOMAIN monthly_production_counts :
         /\ "product" \in DOMAIN label_encoders
         /\ Known(label_encoders["product"], KeyValue(k))}

ProductCode(k) == Code(label_encoders["product"], KeyValue(k))

RowsOf(rows, product) == {i \in 1..Len(rows) : rows[i].product = product}

\* C8: every product of the production counts that has at least one row in the
\* encoded data, whatever its parts, has at least one row in the sample
C8_EveryProductSampled ==
    Sampled =>
        \A k \in KnownProducts :
            RowsOf(data, ProductCode(k)) # {} => RowsOf(ret.sample, ProductCode(k)) # {}

SampleProducts == {ret.sample[i].product : i \in 1..Len(ret.sample)}

\* C9 as stated: on the representative path and on the fallback path alike the
\* sample has at most 2 rows per product and at most 2 x (distinct products) rows
C9_AtMostTwoPerProduct ==
    Sampled =>
        /\ \A p \in SampleProducts : Cardinality(RowsOf(ret.sample, p)) <= 2
        /\ Len(ret.sample) <= 2 * Cardinality(SampleProducts)

\* C9 amended: a sample taken on the representative path has at most 2 rows per
\* product and at most 2 x (distinct products) rows
C9_AtMostTwoPerProduct_Representative ==
    (Sampled /\ ret.path = "representative") =>
        /\ \A p \in SampleProducts : Cardinality(RowsOf(ret.sample, p)) <= 2
        /\ Len(ret.sample) <= 2 * Cardinality(SampleProducts)

\* a product with rows of three parts other than the noise part is represented by
\* two rows
C9_ThreePartsTwoRows ==
    /\ Sampled
    /\ ret.path = "representative"
    /\ \E k \in KnownProducts :
           /\ Cardinality({data[i].part : i \in RowsOf(data, ProductCode(k))}
                              \ SpeedControllerEncoded(label_encoders)) >= 3
           /\ Cardinality(RowsOf(ret.sample, ProductCode(k))) = 2

\* C10: the representative sampler selects no row of the noise part for a product
\* that has rows of another part, and a product whose only rows are of the noise
\* part is represented by one of them
C10_NoiseOnlyProductKept ==
    (Sampled /\ ret.path = "representative") =>
        LET noise == SpeedControllerEncoded(label_encoders)
        IN /\ \A j \in 1..Len(ret.sample) :
                  ret.sample[j].part \in noise
                      => \A i \in RowsOf(data, ret.sample[j].product) : data[i].part \in noise
           /\ \A k \in KnownProducts :
                  (/\ RowsOf(data, ProductCode(k)) # {}
                   /\ \A i \in RowsOf(data, ProductCode(k)) : data[i].part \in noise)
                      => \E j \in RowsOf(ret.sample, ProductCode(k)) :
                             ret.sample[j].part \in noise

(***************************************************************************)
(* Claims C11 .. C20: the encoders, the text features, the bundle and the  *)
(* caller's records.                                                       *)
(***************************************************************************)
\* a call of prepare_features, by the caller or by train_model, has just ended
Encoding == ret'.op \in {"prepare_features", "train_model"}

\* C11: for every categorical column, the code prepare_features writes for a value
\* is a valid code of the column's vocabulary and decodes to that value with the
\* same vocabulary (inverse_transform); no two distinct values of the batch share a
\* code and no vocabulary lists a value twice
C11_DecodeEncodeIsIdentity ==
    [][Encoding =>
          LET cleaned == Cleaned(data)
          IN \A c \in Columns :
                 /\ \A i \in 1..Len(data') :
                        /\ ValidCode(label_encoders'[c], data'[i][c])
                        /\ Decode(label_encoders'[c], data'[i][c]) = cleaned[i][c]
                 /\ \A i, j \in 1..Len(data') :
                        data'[i][c] = data'[j][c] => cleaned[i][c] = cleaned[j][c]
                 /\ \A a, b \in 1..Len(label_encoders'[c]) :
                        label_encoders'[c][a] = label_encoders'[c][b] => a = b]_vars

\* C11 witness: a batch with two different parts was encoded with two different codes
C11_TwoPartsTwoCodes ==
    /\ ret.op = "prepare_features"
    /\ ret.raised = None
    /\ \E i, j \in 1..Len(data) :
           /\ records[i].part # records[j].part
           /\ data[i].part = 0
           /\ data[j].part = 1

\* C12: in one batch a record whose part is missing (NaN) and a record whose part is
\* the literal fill value receive the same code, and no vocabulary the call leaves
\* contains the missing value
C12_MissingEncodesAsFillValue ==
    [][Encoding =>
          /\ \A i, j \in 1..Len(data) :
                 (data[i].part = NaN /\ data[j].part = S("MIBUNRYU"))
                     => data'[i].part = data'[j].part
          /\ \A c \in Columns : ~Known(label_encoders'[c], NaN)]_vars

\* C12 witness: a batch holding a missing part and the literal fill value was encoded
C12_MissingAndLiteralEncoded ==
    /\ ret.op = "prepare_features"
    /\ ret.raised = None
    /\ \E i, j \in 1..Len(data) :
           /\ records[i].part = NaN
           /\ records[j].part = S("MIBUNRYU")
           /\ data[i].part = data[j].part
           /\ Decode(label_encoders["part"], data[i].part) = S("MIBUNRYU")

\* C13: in one batch a record whose part is the empty string receives the same code
\* as a record whose part is the literal fill value
C13_EmptyEncodesAsFillValue ==
    [][Encoding =>
          \A i, j \in 1..Len(data) :
              (data[i].part = S("") /\ data[j].part = S("MIBUNRYU"))
                  => data'[i].part = data'[j].part]_vars

\* prepare_features has just been called with a batch that holds, in column c, a
\* value absent from the fitted vocabulary of c
Drifted(c) ==
    /\ ret'.op = "prepare_features"
    /\ c \in DOMAIN label_encoders
    /\ \E i \in 1..Len(data) : Cleaned(data)[i][c] \notin Range(label_encoders[c])

\* what such a call does to the vocabularies: the vocabulary of a column with drift
\* is replaced by one fitted on exactly the values of the batch and the warning of
\* line 64 names the column; the vocabulary of a column without drift is unchanged
Refitted ==
    \A c \in Columns :
        IF Drifted(c)
        THEN /\ Range(label_encoders'[c]) = ColumnValues(Cleaned(data), c)
             /\ c \in ret'.drift
        ELSE c \in DOMAIN label_encoders =>
                 /\ label_encoders'[c] = label_encoders[c]
                 /\ c \notin ret'.drift

MajorCount(d, v) == Cardinality({i \in 1..Len(d) : d[i].major = v})

\* C15: the label of record i is 1 exactly when its major category is the target;
\* when the target does not occur in the batch, also on a predictor whose vocabulary
\* was fitted on data that held it, the label is 1 exactly when the record's major
\* category is the single most frequent one of the batch
C15_LabelsFollowTargetOrMode ==
    [][(ret'.op = "prepare_features" /\ ret'.raised = None) =>
          LET cleaned == Cleaned(data)
              majors == ColumnValues(cleaned, "major")
          IN IF S("BUPUMBULLYANG") \in majors
             THEN \A i \in 1..Len(cleaned) :
                      ret'.y[i] = 1 <=> cleaned[i].major = S("BUPUMBULLYANG")
             ELSE \A v \in majors :
                      (\A w \in majors \ {v} :
                           MajorCount(cleaned, w) < MajorCount(cleaned, v))
                          => \A i \in 1..Len(cleaned) :
                                 ret'.y[i] = 1 <=> cleaned[i].major = v]_vars

\* the parts of a returned value that are results: the pair of line 102 and the
\* entries of the dict of lines 147-152
ResultParts == {"X", "y", "accuracy", "train_size", "test_size", "feature_importance"}

\* C16: when prepare_features or train_model returns after a recoverable condition
\* (the target category was substituted by the most frequent one, or a vocabulary
\* was refitted on label drift), the returned value carries the condition besides
\* the results
C16_ConditionsReturned ==
    (/\ ret.op \in {"prepare_features", "train_model"}
     /\ ret.raised = None
     /\ (ret.substituted \/ ret.drift # {}))
        => ret.returns \ ResultParts # {}

\* the width of every matrix built with the fitted vectorizer: the three encoded
\* columns and one column per term of its vocabulary
FrozenWidth == 3 + Cardinality(tfidf_vectorizer.vocabulary)

\* C17: once the text vectorizer is fitted, a call that builds a feature matrix
\* leaves the vectorizer as it is; the matrix has one row per input row (the batch
\* of prepare_features, the sampled rows of predict_defect_probability) and the
\* three encoded columns followed by one column per term of the fitted vocabulary,
\* which is the width the model was fitted on; prepare_features does not raise,
\* whatever the terms of the batch
C17_FeatureShapeFrozen ==
    [][(/\ tfidf_vectorizer.fitted
        /\ ret'.op \in {"prepare_features", "train_model", "predict_defect_probability"})
         => /\ tfidf_vectorizer' = tfidf_vectorizer
            /\ model'.exists => model'.n_features = FrozenWidth
            /\ ret'.op = "prepare_features" =>
                   /\ ret'.raised = None
                   /\ ret'.x_shape = <<Len(data), FrozenWidth>>
            /\ ret'.op = "train_model" => ret'.x_shape = <<Len(data), FrozenWidth>>
            /\ (ret'.op = "predict_defect_probability" /\ ret'.x_shape # <<0, 0>>) =>
                   ret'.x_shape = <<Len(ret'.sample), FrozenWidth>>]_vars

\* C17 witness: a batch whose terms are none of the fitted vocabulary was featurized
\* by a predictor that holds a model
C17_UnseenTermsFeaturized ==
    /\ ret.op = "prepare_features"
    /\ ret.raised = None
    /\ model.exists
    /\ Len(records) = Len(data)
    /\ TfidfVocabulary(records) \cap tfidf_vectorizer.vocabulary = {}
    /\ Terms(records) \ tfidf_vectorizer.vocabulary # {}
    /\ ret.x_shape = <<Len(data), model.n_features>>

\* C18: save_model writes the model, the encoders, the vectorizer, the feature names
\* and the flag of the predictor to the file, no other call changes the file, and
\* load_model of an existing file sets the five fields of the predictor to those of
\* the file: a save followed by a load into a fresh predictor gives back the saved
\* predictor, trained or not
C18_SaveLoadRoundTrip ==
    [][/\ ret'.op = "save_model" =>
              /\ file'.exists
              /\ file'.model = model
              /\ file'.label_encoders = label_encoders
              /\ file'.tfidf_vectorizer = tfidf_vectorizer
              /\ file'.feature_names = feature_names
              /\ file'.is_trained = is_trained
       /\ ret'.op # "save_model" => file' = file
       /\ (ret'.op = "load_model" /\ file.exists) =>
              /\ model' = file.model
              /\ label_encoders' = file.label_encoders
              /\ tfidf_vectorizer' = file.tfidf_vectorizer
              /\ feature_names' = file.feature_names
              /\ is_trained' = file.is_trained]_vars

\* C18 witness: load_model has left the predictor with the trained bundle of the
\* file, next to freshly loaded records
C18_TrainedBundleLoaded ==
    /\ ret.op = "load_model"
    /\ file.is_trained
    /\ is_trained
    /\ model.exists
    /\ model = file.model
    /\ label_encoders = file.label_encoders
    /\ tfidf_vectorizer = file.tfidf_vectorizer
    /\ data = records

\* C19: a predictor that has just loaded a trained bundle (its model fitted on both
\* classes) and is asked for predictions on freshly loaded records, whose
\* categorical columns hold the raw strings, returns its predictions without an
\* exception
C19_LoadedBundlePredictsRawRecords ==
    [][(/\ ret.op = "load_model"
        /\ is_trained
        /\ model = file.model
        /\ Cardinality(model.classes) = 2
        /\ data = records
        /\ ret'.op = "predict_defect_probability")
         => ret'.raised = None]_vars

\* C20: train_model and predict_defect_probability leave the records they are given
\* as they were: after the call every categorical field of the caller's data still
\* holds its original string
C20_CallerRecordsUnmodified ==
    [][ret'.op \in {"train_model", "predict_defect_probability"} => data' = data]_vars

(***************************************************************************)
(* Claims C21 .. C30: retraining, the sampler, the report and the frame of *)
(* predict_defect_probability.                                             *)
(***************************************************************************)
\* C21: after a train_model call that returns, also on a predictor that was trained
\* before on other records, every category vocabulary holds exactly the values of
\* the records of this call and the text vocabulary is the one a fit on these
\* records gives
C21_VocabulariesOfThisCall ==
    [][(ret'.op = "train_model" /\ ret'.raised = None) =>
          /\ \A c \in Columns :
                 Range(label_encoders'[c]) = ColumnValues(Cleaned(data), c)
          /\ tfidf_vectorizer'.vocabulary = TfidfVocabulary(data)]_vars

\* the records a call sampled, in the order it handed them to the classifier
SampleIds(result) == [i \in 1..Len(result.sample) |-> result.sample[i].id]

\* C22: two successive predict_defect_probability calls on the same encoded records
\* that are passed the same production counts and both take the representative path
\* sample the same rows in the same order
C22_RepresentativeSampleDeterministic ==
    [][(/\ ret.op = "predict_defect_probability"
        /\ ret'.op = "predict_defect_probability"
        /\ ret.path = "representative"
        /\ ret'.path = "representative"
        /\ ret'.counts = ret.counts
        /\ monthly_production_counts' = monthly_production_counts)
         => SampleIds(ret') = SampleIds(ret)]_vars

\* C23: for every product of the production counts that has rows left after the
\* rows of the noise part are dropped, the sample holds one row of the data for each
\* of its (at most 2) parts with the most rows, no part twice; the row is tagged
\* with the row count of its (product, part) group as diversity_weight and with the
\* product's count as production_count
C23_TopPartsRepresented ==
    Sampled =>
        LET noise == SpeedControllerEncoded(label_encoders)
        IN \A k \in KnownProducts :
               LET kept == {i \in RowsOf(data, ProductCode(k)) : data[i].part \notin noise}
                   parts == {data[i].part : i \in kept}
                   group(p) == {i \in kept : data[i].part = p}
                   picked == RowsOf(ret.sample, ProductCode(k))
                   selected == {ret.sample[j].part : j \in picked}
               IN kept # {} =>
                      /\ ret.path = "representative"
                      /\ Cardinality(picked) = Min(2, Cardinality(parts))
                      /\ Cardinality(selected) = Cardinality(picked)
                      /\ \A j \in picked :
                             /\ \E i \in group(ret.sample[j].part) :
                                    data[i].id = ret.sample[j].id
                             /\ ret.sample[j].diversity_weight =
                                    Cardinality(group(ret.sample[j].part))
                             /\ ret.sample[j].production_count = monthly_production_counts[k]
                      /\ \A p \in selected : \A q \in parts \ selected :
                             Cardinality(group(q)) <= Cardinality(group(p))

\* C23 witness: one product is represented by a part with two rows and a part with
\* one row, tagged with these counts and with the product's count of 2, next to a
\* row of the other product
C23_GroupsTagged ==
    /\ Sampled
    /\ ret.path = "representative"
    /\ \E j1, j2, j3 \in 1..Len(ret.sample) :
           /\ ret.sample[j1].product = ret.sample[j2].product
           /\ ret.sample[j1].diversity_weight = 2
           /\ ret.sample[j2].diversity_weight = 1
           /\ ret.sample[j1].production_count = 2
           /\ ret.sample[j3].product # ret.sample[j1].product

\* C24: on the representative path the sampled rows are in non-increasing order of
\* the production count of their product
C24_SortedByProductionCount ==
    (Sampled /\ ret.path = "representative") =>
        \A i, j \in 1..Len(ret.sample) :
            i < j => ret.sample[i].production_count >= ret.sample[j].production_count

\* C24 witness: the sample holds rows of two products with different production
\* counts, the rows of the product that comes later in the data first
C24_LaterProductFirst ==
    /\ Sampled
    /\ ret.path = "representative"
    /\ \E i, j \in 1..Len(ret.sample) :
           /\ i < j
           /\ ret.sample[i].production_count > ret.sample[j].production_count
           /\ ret.sample[i].id > ret.sample[j].id

\* the products of the production counts with rows left in the data once the rows
\* of the noise part are dropped: the ones that yield a representative
Represented ==
    {k \in KnownProducts :
         \E i \in RowsOf(data, ProductCode(k)) :
             data[i].part \notin SpeedControllerEncoded(label_encoders)}

\* C25: the fallback sampler runs exactly when no product of the production counts
\* yields a representative; its sample is min(sample_size, number of records) rows of
\* the data, no row twice, and the sampling weight of every row is positive: 1 when
\* no weights are given, else the weight of the row's product or 0.01 for a product
\* the weights do not name
C25_FallbackSample ==
    Sampled =>
        /\ ret.path = "fallback" <=> Represented = {}
        /\ ret.path = "fallback" =>
               /\ Len(ret.sample) = Min(sample_size, Len(data))
               /\ \A i, j \in 1..Len(ret.sample) :
                      i # j => ret.sample[i].id # ret.sample[j].id
               /\ \A i \in 1..Len(ret.sample) :
                      LET w == ret.sample[i].production_weight
                      IN /\ \E r \in 1..Len(data) :
                                /\ data[r].id = ret.sample[i].id
                                /\ data[r].part = ret.sample[i].part
                         /\ w[1] > 0 /\ w[2] > 0
                         /\ \/ w = <<1, 1>>
                            \/ w = <<1, 100>>
                            \/ \E k \in KnownProducts :
                                   /\ ProductCode(k) = ret.sample[i].product
                                   /\ w = calculate_weights(monthly_production_counts).weights[k]

\* C25 witness: the production counts name only a product the data does not hold
\* and the fallback drew sample_size of the more than sample_size records, each
\* with the weight 0.01
C25_FallbackTruncated ==
    /\ Sampled
    /\ ret.path = "fallback"
    /\ DOMAIN monthly_production_counts # {}
    /\ Len(data) > sample_size
    /\ Len(ret.sample) = sample_size
    /\ \A i \in 1..Len(ret.sample) : ret.sample[i].production_weight = <<1, 100>>

\* C26: the report of every train_model call that returns, the first training of a
\* fresh predictor included, lists the feature importances of the model just
\* fitted: at least one entry and at most 20
C26_ReportHasImportances ==
    (ret.op = "train_model" /\ ret.raised = None) =>
        /\ ret.report.returned
        /\ ret.report.feature_importance > 0
        /\ ret.report.feature_importance <= 20

\* C27: the products the sampler goes through are the keys of the production counts
\* passed to the call: every representative row is a row of a product of these
\* counts, tagged with its count there, and a call that passes no counts takes no
\* representative
C27_OnlyCountsOfThisCall ==
    (Sampled /\ ret.path = "representative") =>
        \A i \in 1..Len(ret.sample) :
            \E k \in DOMAIN ret.counts :
                /\ Known(label_encoders["product"], KeyValue(k))
                /\ ret.sample[i].product = ProductCode(k)
                /\ ret.sample[i].production_count = ret.counts[k]

\* C28: a train_model call that raises on a trained predictor leaves the model, the
\* category vocabularies, the text vectorizer and is_trained as they were
C28_FailedRetrainKeepsPredictor ==
    [][(is_trained /\ ret'.op = "train_model" /\ ret'.raised # None) =>
          /\ model' = model
          /\ label_encoders' = label_encoders
          /\ tfidf_vectorizer' = tfidf_vectorizer
          /\ is_trained' = is_trained]_vars

\* C29: a run of the prediction pipeline never reaches the prediction step with a
\* predictor that is not trained: when no model could be loaded, a model is trained
\* before predicting, so the run does not end with the "not trained" error of predict
C29_PipelineNeverPredictsUntrained ==
    (ret.op = "run_prediction_pipeline" /\ records # <<>>)
        => ret.raised # "ValueError: not trained"

\* C30: predict_defect_probability on a trained predictor, whether it returns or
\* raises, leaves is_trained, the model, every category vocabulary, the text
\* featurizer with its feature names and the caller's data as they were, so the
\* predictor is still trained after the call
C30_PredictLeavesPredictorAndData ==
    [][(is_trained /\ ret'.op = "predict_defect_probability")
         => /\ is_trained'
            /\ model' = model
            /\ label_encoders' = label_encoders
            /\ tfidf_vectorizer' = tfidf_vectorizer
            /\ feature_names' = feature_names
            /\ data' = data]_vars

\* a trained predictor has returned predictions for two sampled rows, with production
\* counts passed, and is trained
C30_TrainedPredictorPredicted ==
    /\ is_trained
    /\ Returned
    /\ Len(ret.predictions) >= 2
    /\ DOMAIN ret.counts # {}

====
